---- MODULE Spec2Model ----
(***************************************************************************)
(* Model of src/atacseq.py: the ATAC-seq pipeline of chunky-pipes.          *)
(*   - Pipeline.run_pipeline: six gated stages of external tool calls, the *)
(*     staging-delete list, the QC record, the QC flush and the cleanup.   *)
(*   - Pipeline.shift_reads: the strand-dependent coordinate shift with    *)
(*     its genome-boundary check, one input line per step.                 *)
(* The file system is the set of paths that exist.  A path is the string   *)
(* the code builds with os.path.join and str.format.                       *)
(***************************************************************************)
EXTENDS Integers, Sequences, FiniteSets, TLC

(* ------------------------------ bounds --------------------------------- *)
\* most read pairs given with --reads
MaxPairs == 2
\* most lines of an interval (BED) file given to shift_reads
MaxLines == 3
\* largest --step value tried (the stages are 1..6)
MaxStep == 7
\* lines of every fastq file on disk (4 lines per read)
FastqLines == 8
\* most reads of a sorted BAM given to the steric filter
MaxReads == 5

(* ------------------------- program constants --------------------------- *)
MINUS_STRAND_SHIFT == -5
PLUS_STRAND_SHIFT == 4
STERIC_HINDRANCE_CUTOFF == 38

(* ------------------------------ strings -------------------------------- *)
Digit == <<"0", "1", "2", "3", "4", "5", "6", "7", "8", "9">>

\* Python str() of an int
RECURSIVE str(_)
str(n) ==
    IF n < 0 THEN "-" \o str(-n)
    ELSE IF n < 10 THEN Digit[n + 1]
    ELSE str(n \div 10) \o Digit[(n % 10) + 1]

\* os.path.join(a, b)
join(a, b) == a \o "/" \o b

Range(s) == {s[k] : k \in 1..Len(s)}

\* variant: the file opened with mode 'a'
opened_for_appending(content) == content

\* open(path, 'w') (lines 101 and 497; 'wb' at line 312): what the file
\* holds is dropped
opened_for_writing(content) == <<>>

(* ------------------------- arguments and paths ------------------------- *)
output_dir == "/out"
logs_dir == join(output_dir, "logs")
tmp_dir == join(output_dir, "tmp")
lib_prefix == "lib"

\* pipeline_config entries that are paths
bwa_index_dir == "/ref/genome.fa"
blacklist_bed == "/ref/blacklist.bed"
genome_sizes_filepath == "/ref/genome.sizes"

\* '..._{}_read1.trimmed.fastq.gz'.format(i), i counted from 0
trimmed_read1_filename(n) ==
    join(output_dir, lib_prefix \o "_" \o str(n) \o "_read1.trimmed.fastq.gz")
trimmed_read2_filename(n) ==
    join(output_dir, lib_prefix \o "_" \o str(n) \o "_read2.trimmed.fastq.gz")
fastqc_output_dir == join(output_dir, "fastqc")
sai(read) == read \o ".sai"
bwa_bam_output(n) == join(output_dir, lib_prefix \o "." \o str(n) \o ".bam")
flagstat_of(bam) == bam \o ".flagstat"
bai(bam) == bam \o ".bai"
sortmerged_bam == join(output_dir, lib_prefix \o ".sortmerged.bam")
steric_filter_bam == join(output_dir, lib_prefix \o ".steric.bam")
duprm_bam == join(output_dir, lib_prefix \o ".duprm.bam")
unique_bam == join(output_dir, lib_prefix \o ".unique.bam")
unmappedrm_bam == join(output_dir, lib_prefix \o ".unmappedrm.bam")
chrmrm_bam == join(output_dir, lib_prefix \o ".chrmrm.bam")
markduplicates_metrics_filepath == join(logs_dir, "mark_dup.metrics")
processed_bam == join(output_dir, lib_prefix \o ".processed.bam")
unshifted_bed == join(output_dir, lib_prefix \o ".unshifted.bed")
processed_bed == join(output_dir, lib_prefix \o ".processed.bed")
shift_reads_log == join(logs_dir, "shift_reads.logs")
homer_tagdir == join(output_dir, lib_prefix \o "_tagdir")
peaks_txt == join(homer_tagdir, "peaks.txt")
unsorted_peaks == join(output_dir, lib_prefix \o ".unsorted.peaks.bed")
sorted_peaks == join(output_dir, lib_prefix \o ".sorted.peaks.bed")
merged_peaks == join(output_dir, lib_prefix \o ".peaks.bed")
qc_metrics_txt == join(logs_dir, "qc_metrics.txt")

\* the raw read files a run can be given; a read pair 'read1:read2' is kept
\* as the list read_pair.split(':') gives
RawPair(n) == <<"/raw/s" \o str(n) \o "_R1.fastq.gz", "/raw/s" \o str(n) \o "_R2.fastq.gz">>
\* the --reads lists tried: different pairs, or the same pair given again
ReadArgs ==
    {[n \in 1..k |-> RawPair(n)] : k \in 1..MaxPairs}
    \cup {[n \in 1..k |-> RawPair(1)] : k \in 2..MaxPairs}

(* ------------------------ shift_reads: helpers ------------------------- *)
\* A line of a tab-separated file is the list of its fields, empty ones kept.
\* line.strip() removes the tabs (and the newline) at both ends, and with
\* them the empty fields there; '' splits into the single field ''.
RECURSIVE rstrip(_)
rstrip(line) ==
    IF Len(line) > 1 /\ line[Len(line)] = "" THEN rstrip(SubSeq(line, 1, Len(line) - 1))
    ELSE line
RECURSIVE lstrip(_)
lstrip(line) ==
    IF Len(line) > 1 /\ line[1] = "" THEN lstrip(Tail(line))
    ELSE line
strip(line) == lstrip(rstrip(line))

\* the integers whose decimal form int() is asked to read in this model
IntValues == -1..130
\* other spellings int() accepts
Padded == [s \in {"010", "+96"} |-> IF s = "010" THEN 10 ELSE 96]
\* int(s): the value, or the ValueError Python raises
IsInt(s) == s \in DOMAIN Padded \/ \E n \in IntValues : str(n) = s
int(s) == IF s \in DOMAIN Padded THEN Padded[s] ELSE CHOOSE n \in IntValues : str(n) = s

\* lines 95-99: the dict built from the genome sizes file, a later line of a
\* chromosome replacing an earlier one
RECURSIVE load_genome_sizes(_)
load_genome_sizes(lines) ==
    IF lines = <<>> THEN <<>>
    ELSE LET before == load_genome_sizes(SubSeq(lines, 1, Len(lines) - 1))
             last == strip(lines[Len(lines)])
         IN  [c \in DOMAIN before \cup {last[1]} |->
                 IF c = last[1] THEN int(last[2]) ELSE before[c]]

\* variant: positions counted from 0
within_genome_boundry_from_zero(chrom, check_pos, genome_sizes_dict) ==
    IF check_pos < 0 THEN "False"
    ELSE IF chrom \notin DOMAIN genome_sizes_dict THEN "KeyError"
    ELSE IF check_pos > genome_sizes_dict[chrom] THEN "False"
    ELSE "True"

\* lines 88-93; "KeyError" when genome_sizes_dict[chrom] does not exist
within_genome_boundry(chrom, check_pos, genome_sizes_dict) ==
    IF check_pos < 1 THEN "False"
    ELSE IF chrom \notin DOMAIN genome_sizes_dict THEN "KeyError"
    ELSE IF check_pos > genome_sizes_dict[chrom] THEN "False"
    ELSE "True"

\* line 105: the exception the tuple assignment raises, "none" if it succeeds
unpack_error(record) ==
    IF Len(record) < 2 THEN "IndexError"
    ELSE IF ~IsInt(record[2]) THEN "ValueError"
    ELSE IF Len(record) < 3 THEN "IndexError"
    ELSE IF ~IsInt(record[3]) THEN "ValueError"
    ELSE IF Len(record) < 6 THEN "IndexError"
    ELSE "none"

\* variant: the two shifts exchanged
shifted_exchanged(start, end, strand, minus_strand_shift, plus_strand_shift) ==
    IF strand = "+" THEN <<start + minus_strand_shift, end + minus_strand_shift>>
    ELSE <<start + plus_strand_shift, end + plus_strand_shift>>

\* variant: the end is left where it was
shifted_start_only(start, end, strand, minus_strand_shift, plus_strand_shift) ==
    IF strand = "+" THEN <<start + plus_strand_shift, end>>
    ELSE <<start + minus_strand_shift, end>>

\* lines 107-112: the shifted [start, end] of a record of strand + or -
shifted(start, end, strand, minus_strand_shift, plus_strand_shift) ==
    IF strand = "+" THEN <<start + plus_strand_shift, end + plus_strand_shift>>
    ELSE <<start + minus_strand_shift, end + minus_strand_shift>>

\* variant: the fields up to the strand only
passthrough_upto_strand(record) == SubSeq(record, 4, 6)

\* line 127: record[3:], the fields written after the three rebuilt ones
passthrough(record) == SubSeq(record, 4, Len(record))

MalformedMsg == <<"Mal-formatted line in file, skipping:">>
StartMsg == <<"Shift start site beyond chromosome boundry:">>
EndMsg == <<"Shift end site beyond chromosome boundry:">>

\* lines 104-127, one pass of the loop body over one line: what is written
\* to the output ("out": no or one line), what is appended to the log
\* ("log": no or two lines) and the exception raised ("error")
shift_line(line, genome_sizes, minus_strand_shift, plus_strand_shift) ==
    LET record == strip(line)
        Result(o, l, e) == [out |-> o, log |-> l, error |-> e]
    IN  IF unpack_error(record) # "none" THEN Result(<<>>, <<>>, unpack_error(record))
        ELSE
        LET chrom == record[1]
            start == int(record[2])
            end == int(record[3])
            strand == record[6]
        IN  IF strand \notin {"+", "-"}
            THEN Result(<<>>, <<MalformedMsg, record>>, "none")
            ELSE
            LET new == shifted(start, end, strand, minus_strand_shift, plus_strand_shift)
                start_ok == within_genome_boundry(chrom, new[1], genome_sizes)
                end_ok == within_genome_boundry(chrom, new[2], genome_sizes)
            IN  IF start_ok = "KeyError" THEN Result(<<>>, <<>>, "KeyError")
                ELSE IF start_ok = "False" THEN Result(<<>>, <<StartMsg, record>>, "none")
                ELSE IF end_ok = "KeyError" THEN Result(<<>>, <<>>, "KeyError")
                ELSE IF end_ok = "False" THEN Result(<<>>, <<EndMsg, record>>, "none")
                ELSE Result(<<<<chrom, str(new[1]), str(new[2])>> \o passthrough(record)>>,
                            <<>>, "none")

(* ----------------------- steric filter: helpers ------------------------ *)
abs(n) == IF n < 0 THEN -n ELSE n

\* variant: the sign of the template length not removed
steric_kept_signed(read) == read.template_length >= STERIC_HINDRANCE_CUTOFF

\* line 315: the test of one read
steric_kept(read) == abs(read.template_length) >= STERIC_HINDRANCE_CUTOFF

\* lines 314-316: the reads written, the loop taken over the reads in the
\* order fetch() gives them, which is the order of the sorted BAM
RECURSIVE steric_filter(_)
steric_filter(reads) ==
    IF reads = <<>> THEN <<>>
    ELSE LET before == steric_filter(SubSeq(reads, 1, Len(reads) - 1))
             read == reads[Len(reads)]
         IN  IF steric_kept(read) THEN Append(before, read) ELSE before

\* a BAM as the list of its reads, of the given template lengths: read k is
\* named after its place in the file
AlignedReads(lengths) ==
    [k \in 1..Len(lengths) |-> [query_name |-> "r" \o str(k), template_length |-> lengths[k]]]

(* ------------------------------- state --------------------------------- *)
VARIABLES
    step,            \* int(pipeline_args['step'])
    read_pairs,      \* pipeline_args['reads'], each pair as its list of paths
    staging_delete,  \* the list of paths to delete at the end
    bwa_bam_outs,    \* the per-pair BAMs stage 3 produced in this run
    qc_data,         \* the QC record
    pc,              \* the statement run_pipeline (or shift_reads) is at
    i,               \* index of the running for loop (1-based)
    j,               \* index of the inner loop of stage 2 (1-based)
    disk,            \* the paths that exist
    calls,           \* the external programs started so far, in order
    env,             \* what the run meets: failing programs, report contents
    deleted,         \* the paths the cleanup loop has passed to rm -rf
    qc_file,         \* content of logs/qc_metrics.txt
    error,           \* the exception that ended the run, "none" if none
    genome_file,     \* content of the genome sizes file
    genome_sizes,    \* shift_reads: the dict loaded from it
    input_bed,       \* content of the interval file shift_reads reads
    line_no,         \* shift_reads: lines of input_bed read so far
    output_bed,      \* content of the interval file shift_reads writes
    log_file,        \* content of the log shift_reads appends to
    shift_outputs,   \* the output file as each finished call of shift_reads left it
    sortmerged_reads, \* the reads of the sorted, merged BAM novosort writes
    steric_reads,    \* the reads of the BAM the steric filter writes
    qc_flushes       \* how many times logs/qc_metrics.txt was written

locals == <<read_pairs, staging_delete, bwa_bam_outs, qc_data, i, j>>
shiftvars == <<genome_file, genome_sizes, input_bed, line_no, output_bed, log_file, shift_outputs>>
stericvars == <<sortmerged_reads, steric_reads>>
rest == <<step, env, deleted, qc_file, qc_flushes, shiftvars, stericvars>>
vars == <<pc, disk, calls, error, locals, rest>>

ExitCodes == {0, 1}

\* chunkypipes' Software.run is not part of this repository: following the
\* specification, a non-zero exit of the program raises in the caller
run_raises(exit) == exit # 0

\* the record of one program started: the stage (0 before the stages, 7 in
\* the cleanup), the pair or list entry it is for (0 if none), the paths it
\* is told to read, those of them that do not exist, the paths it writes
Call(stage, tool, pair, reads, writes, exit) ==
    [stage |-> stage, tool |-> tool, pair |-> pair, reads |-> reads,
     missing |-> reads \ disk, writes |-> writes, exit |-> exit]

\* variant: the stages wrapped in a try block that goes on to the QC flush
RaiseCaught(call, exception) ==
    /\ calls' = Append(calls, call)
    /\ pc' = "qc_flush"
    /\ error' = error
    /\ UNCHANGED <<disk, locals, rest>>

\* an exception leaves run_pipeline: nothing in it catches one outside the
\* two QC try blocks
Raise(call, exception) ==
    /\ calls' = Append(calls, call)
    /\ pc' = "aborted"
    /\ error' = exception
    /\ UNCHANGED <<disk, locals, rest>>

\* the program ran and wrote its outputs; control moves on
Ran(call, next) ==
    /\ calls' = Append(calls, call)
    /\ disk' = disk \cup call.writes
    /\ pc' = next
    /\ error' = error

\* software.run(...) at a place that changes nothing else
SoftwareRun(stage, tool, pair, reads, writes, next) ==
    \E exit \in ExitCodes :
        LET call == Call(stage, tool, pair, reads, writes, exit)
        IN  IF run_raises(exit) THEN Raise(call, "ToolFailure")
            ELSE Ran(call, next) /\ UNCHANGED <<locals, rest>>

\* the exit status of a program started with subprocess.call or
\* subprocess.Popen, which return it and raise nothing: non-zero where the
\* environment of the run makes the program fail on that path
exit_of(tool, path) == IF [tool |-> tool, path |-> path] \in env.failing THEN 1 ELSE 0

(* ------------------------------- Init ---------------------------------- *)
\* variant: the record starts from what an earlier run recorded
qc_data_carried_over ==
    [total_raw_reads_counts |-> << <<"9", "9">> >>,
     trimmed_reads_counts |-> <<>>,
     num_reads_mapped |-> <<>>,
     percent_duplicate_reads |-> "0.9",
     num_unique_reads_mapped |-> <<>>,
     num_mtDNA_reads_mapped |-> <<>>,
     num_reads_mapped_after_filtering |-> "-1",
     num_peaks_called |-> "-1"]

\* lines 149-160
qc_data_initial ==
    [total_raw_reads_counts |-> <<>>,
     trimmed_reads_counts |-> <<>>,
     num_reads_mapped |-> <<>>,
     percent_duplicate_reads |-> "0",
     num_unique_reads_mapped |-> <<>>,
     num_mtDNA_reads_mapped |-> <<>>,
     num_reads_mapped_after_filtering |-> "-1",
     num_peaks_called |-> "-1"]

\* the files stage k of a run started at step 1 leaves behind, for n pairs
stage_outputs(k, n) ==
    CASE k = 1 -> {trimmed_read1_filename(p - 1) : p \in 1..n}
                  \cup {trimmed_read2_filename(p - 1) : p \in 1..n}
                  \cup {join(logs_dir, "cutadapt.summary.log")}
      [] k = 2 -> {sai(trimmed_read1_filename(p - 1)) : p \in 1..n}
                  \cup {sai(trimmed_read2_filename(p - 1)) : p \in 1..n}
                  \cup {fastqc_output_dir}
      [] k = 3 -> {bwa_bam_output(p - 1) : p \in 1..n}
                  \cup {join(logs_dir, "bwa_sampe.log")}
      [] k = 4 -> {flagstat_of(bwa_bam_output(p - 1)) : p \in 1..n}
                  \cup {sortmerged_bam, bai(sortmerged_bam), steric_filter_bam, duprm_bam,
                        unique_bam, unmappedrm_bam, bai(unmappedrm_bam), chrmrm_bam,
                        join(logs_dir, "novosort.log"), markduplicates_metrics_filepath,
                        join(logs_dir, "mark_dup.log")}
      [] k = 5 -> {processed_bam, bai(processed_bam), unshifted_bed, processed_bed,
                   join(logs_dir, lib_prefix \o ".insertsize.metrics"),
                   join(logs_dir, lib_prefix \o ".insertsize.pdf")}
      [] OTHER -> {}

\* what the run is given: the raw reads and the reference files
Inputs(reads) ==
    UNION {Range(reads[p]) : p \in 1..Len(reads)}
    \cup {bwa_index_dir, blacklist_bed, genome_sizes_filepath}

\* genome sizes files: tab-separated chromosome and length
GenomeFiles ==
    {<< <<"chr1", "100">> >>,
     << <<"chr1", "50">>, <<"chr2", "12">>, <<"chr1", "100">> >>}

\* interval files bedtools bamtobed can leave for shift_reads in a run
PipelineBeds ==
    {<< <<"chr1", "10", "20", "name", "0", "-">>, <<"chr1", "96", "99", "name", "0", "+">> >>,
     << <<"chr1", "10", "20", "name", "0", "+">>, <<"chrUn", "10", "20", "name", "0", "+">> >>,
     <<>>}

\* what open(bwa_bam + '.flagstat').read() can give: the report can be
\* read and re.search finds the count group, or finds nothing, or the report
\* cannot be read
FlagstatReports ==
    <<[readable |-> TRUE, mapped |-> <<"8">>],
      [readable |-> TRUE, mapped |-> <<>>],
      [readable |-> FALSE, mapped |-> <<>>]>>

\* a row of the metrics report: a comment line, or its tab-separated fields
MetricsRow(fields) == [comment |-> FALSE, fields |-> fields]
MetricsComment == [comment |-> TRUE, fields |-> <<"## METRICS CLASS">>]
MetricsData(percent) ==
    MetricsRow(<<"lib", "0", "10", "0", "0", "2", "0", percent, "100">>)

\* what Picard can leave in mark_dup.metrics
MetricsFiles ==
    {<<MetricsComment, MetricsData("0.2")>>,
     <<MetricsComment, MetricsData("0.2"), MetricsRow(<<"">>), MetricsData("0.5")>>,
     <<MetricsComment, MetricsRow(<<"LIBRARY", "a", "b", "c", "d", "e", "f", "PERCENT_DUPLICATION", "g">>)>>}

\* what Picard can leave in mark_dup.metrics, or nothing that can be read
MetricsReports ==
    {[readable |-> TRUE, rows |-> rows] : rows \in MetricsFiles}
    \cup {[readable |-> FALSE, rows |-> <<>>]}

\* the flagstat report of BAM n: the three kinds in turn, from kind first
flagstat_reports(first) ==
    [n \in 1..MaxPairs |-> FlagstatReports[((n + first - 2) % 3) + 1]]

\* the programs that can fail without the code looking at their exit status
Failing ==
    {{[tool |-> "zcat", path |-> RawPair(1)[2]]},
     {[tool |-> "zcat", path |-> trimmed_read1_filename(0)]},
     {[tool |-> "mkdir", path |-> output_dir]},
     {[tool |-> "mkdir", path |-> fastqc_output_dir]},
     {[tool |-> "rm", path |-> tmp_dir]},
     {[tool |-> "rm", path |-> chrmrm_bam], [tool |-> "rm", path |-> unshifted_bed]}}

\* a run where every program works and every report is as expected
EnvUsual ==
    [failing |-> {},
     flagstat |-> flagstat_reports(1),
     metrics |-> [readable |-> TRUE, rows |-> <<MetricsComment, MetricsData("0.2")>>],
     bed |-> << <<"chr1", "10", "20", "name", "0", "-">>,
                <<"chr1", "96", "99", "name", "0", "+">> >>]

\* the environments tried: the usual reports with every failing set and
\* interval file, and the usual run with every other report
Environments ==
    {[EnvUsual EXCEPT !.failing = f, !.bed = b] : f \in Failing \cup {{}}, b \in PipelineBeds}
    \cup {[EnvUsual EXCEPT !.flagstat = flagstat_reports(first)] : first \in 2..3}
    \cup {[EnvUsual EXCEPT !.metrics = m] : m \in MetricsReports}

\* the QC record an earlier, completed run left in logs/qc_metrics.txt
qc_data_earlier ==
    [qc_data_initial EXCEPT !.total_raw_reads_counts = << <<"9", "9">> >>,
                            !.percent_duplicate_reads = "0.9"]

\* the reads novosort leaves in the sorted BAM of a run
SortmergedUsual == AlignedReads(<<37, -50, 38>>)

\* Init: a run is started with --step and --reads, on a disk that holds the
\* inputs and either nothing else or what earlier runs with the same
\* arguments left behind: the output of stages 1..step-1 of a run started at
\* step 1, and the QC file of a completed run
Init ==
    /\ step \in 0..MaxStep
    /\ read_pairs \in ReadArgs
    /\ \E resumed \in BOOLEAN :
          /\ disk = Inputs(read_pairs)
                 \cup (IF resumed
                       THEN {output_dir, tmp_dir, logs_dir, qc_metrics_txt}
                            \cup UNION {stage_outputs(k, Len(read_pairs)) : k \in 1..(step - 1)}
                       ELSE {})
          /\ qc_file = IF resumed THEN <<qc_data_earlier>> ELSE <<>>
    /\ staging_delete = <<>>
    /\ bwa_bam_outs = <<>>
    /\ qc_data = qc_data_initial
    /\ pc = "mkdir"
    /\ i = 1
    /\ j = 1
    /\ calls = <<>>
    /\ env \in Environments
    /\ deleted = <<>>
    /\ qc_flushes = 0
    /\ error = "none"
    /\ genome_file = << <<"chr1", "100">> >>
    /\ genome_sizes = <<>>
    /\ input_bed = <<>>
    /\ line_no = 0
    /\ output_bed = <<>>
    /\ log_file = <<>>
    /\ shift_outputs = <<>>
    /\ sortmerged_reads = SortmergedUsual
    /\ steric_reads = <<>>

(* --------------------------- run_pipeline ------------------------------ *)
\* lines 143-160: mkdir -p of the directories, then the run's lists and
\* QC record are created
Mkdir ==
    /\ pc = "mkdir"
    /\ LET exit == exit_of("mkdir", output_dir)
       IN  /\ calls' = Append(calls, Call(0, "mkdir", 0, {}, {output_dir, tmp_dir, logs_dir}, exit))
           /\ disk' = IF exit = 0 THEN disk \cup {output_dir, tmp_dir, logs_dir} ELSE disk
    /\ staging_delete' = <<tmp_dir>>
    /\ bwa_bam_outs' = <<>>
    /\ qc_data' = qc_data_initial
    /\ pc' = "gate1"
    /\ UNCHANGED <<step, env, read_pairs, i, j, deleted, qc_file, qc_flushes, error>>
    /\ UNCHANGED <<shiftvars, stericvars>>

\* the first statement of stage k
StageStart(k) ==
    CASE k = 1 -> "count_raw"
      [] k = 2 -> "mkdir_fastqc"
      [] k = 3 -> "bwa_sampe"
      [] k = 4 -> IF bwa_bam_outs = <<>> THEN "novosort" ELSE "flagstat"
      [] k = 5 -> "intersect"
      [] k = 6 -> "maketagdir"

GateName(k) == IF k > 6 THEN "qc_flush" ELSE "gate" \o str(k)

\* variant: the test step < k
entered_after(k) == step < k

\* variant: the stage not gated
entered_always(k) == TRUE

\* lines 189, 226, 246, 271, 390, 443: the test step <= k
entered(k) == step <= k

\* the if statement of stage k
Gate(k) ==
    /\ pc = GateName(k)
    /\ pc' = IF entered(k) THEN StageStart(k) ELSE GateName(k + 1)
    /\ i' = 1
    /\ j' = 1
    /\ UNCHANGED <<disk, calls, error, read_pairs, staging_delete, bwa_bam_outs, qc_data, rest>>

\* variant: the list assigned instead of extended
extend_replacing(list, items) == items

\* list.extend(items)
extend(list, items) == list \o items

\* lines 76-79: wc -l of what zcat prints; zcat is started with Popen and
\* its exit status is never read
count_gzipped_lines(filepath, zcat_exit) ==
    IF zcat_exit = 0 /\ filepath \in disk THEN str(FastqLines) ELSE "0"

\* str(int(count)/4), the division of Python 2 integers
reads_count(count) == str(int(count) \div 4)

\* lines 190-197: the raw read counts of pair i
CountRaw ==
    /\ pc = "count_raw"
    /\ LET read1 == read_pairs[i][1]
           read2 == read_pairs[i][2]
           exit1 == exit_of("zcat", read1)
           exit2 == exit_of("zcat", read2)
       IN   /\ calls' = calls \o <<Call(1, "zcat", i, {read1}, {}, exit1),
                                   Call(1, "zcat", i, {read2}, {}, exit2)>>
            /\ qc_data' = [qc_data EXCEPT !.total_raw_reads_counts =
                              Append(@, <<reads_count(count_gzipped_lines(read1, exit1)),
                                          reads_count(count_gzipped_lines(read2, exit2))>>)]
    /\ pc' = "cutadapt"
    /\ UNCHANGED <<disk, error, read_pairs, staging_delete, bwa_bam_outs, i, j, rest>>

\* lines 199-215
Cutadapt ==
    /\ pc = "cutadapt"
    /\ SoftwareRun(1, "cutadapt", i, Range(read_pairs[i]),
                   {trimmed_read1_filename(i - 1), trimmed_read2_filename(i - 1),
                    join(logs_dir, "cutadapt.summary.log")},
                   "count_trimmed")

\* lines 217-224: the trimmed read counts, the trimmed files staged for
\* deletion, and the pair replaced by the trimmed files
CountTrimmed ==
    /\ pc = "count_trimmed"
    /\ LET t1 == trimmed_read1_filename(i - 1)
           t2 == trimmed_read2_filename(i - 1)
           exit1 == exit_of("zcat", t1)
           exit2 == exit_of("zcat", t2)
       IN  /\ calls' = calls \o <<Call(1, "zcat", i, {t1}, {}, exit1),
                                  Call(1, "zcat", i, {t2}, {}, exit2)>>
           /\ qc_data' = [qc_data EXCEPT !.trimmed_reads_counts =
                             Append(@, <<reads_count(count_gzipped_lines(t1, exit1)),
                                         reads_count(count_gzipped_lines(t2, exit2))>>)]
           /\ staging_delete' = extend(staging_delete, <<t1, t2>>)
           /\ read_pairs' = [read_pairs EXCEPT ![i] = <<t1, t2>>]
    /\ i' = i + 1
    /\ pc' = IF i < Len(read_pairs) THEN "count_raw" ELSE "gate2"
    /\ UNCHANGED <<disk, error, bwa_bam_outs, j, rest>>

\* lines 227-229
MkdirFastqc ==
    /\ pc = "mkdir_fastqc"
    /\ LET exit == exit_of("mkdir", fastqc_output_dir)
       IN  /\ calls' = Append(calls, Call(2, "mkdir", 0, {}, {fastqc_output_dir}, exit))
           /\ disk' = IF exit = 0 THEN disk \cup {fastqc_output_dir} ELSE disk
    /\ pc' = "fastqc"
    /\ UNCHANGED <<error, locals, rest>>

\* lines 230-235: FastQC of read j of pair i
Fastqc ==
    /\ pc = "fastqc"
    /\ SoftwareRun(2, "fastqc", i, {read_pairs[i][j]}, {}, "bwa_aln")

\* lines 237-244: bwa aln of read j of pair i, its .sai staged for deletion
BwaAln ==
    /\ pc = "bwa_aln"
    /\ LET read == read_pairs[i][j]
       IN  \E exit \in ExitCodes :
            LET call == Call(2, "bwa_aln", i, {bwa_index_dir, read}, {sai(read)}, exit)
            IN  IF run_raises(exit) THEN Raise(call, "ToolFailure")
                ELSE /\ Ran(call, IF j < Len(read_pairs[i]) \/ i < Len(read_pairs)
                                  THEN "fastqc" ELSE "gate3")
                     /\ staging_delete' = Append(staging_delete, sai(read))
                     /\ j' = IF j < Len(read_pairs[i]) THEN j + 1 ELSE 1
                     /\ i' = IF j < Len(read_pairs[i]) THEN i ELSE i + 1
                     /\ UNCHANGED <<read_pairs, bwa_bam_outs, qc_data, rest>>

\* lines 247-269: bwa sampe piped into samtools view, one BAM per pair
BwaSampe ==
    /\ pc = "bwa_sampe"
    /\ LET read1 == read_pairs[i][1]
           read2 == read_pairs[i][2]
       IN  \E exit \in ExitCodes :
            LET call == Call(3, "bwa_sampe", i,
                             {bwa_index_dir, sai(read1), sai(read2), read1, read2},
                             {bwa_bam_output(i - 1), join(logs_dir, "bwa_sampe.log")}, exit)
            IN  IF run_raises(exit) THEN Raise(call, "ToolFailure")
                ELSE /\ Ran(call, IF i < Len(read_pairs) THEN "bwa_sampe" ELSE "gate4")
                     /\ bwa_bam_outs' = Append(bwa_bam_outs, bwa_bam_output(i - 1))
                     /\ i' = i + 1
                     /\ UNCHANGED <<read_pairs, staging_delete, qc_data, j, rest>>

\* variant: the match not tested before group(1) is taken, so that a report
\* without the count line ends in the except branch
num_reads_mapped_of_unchecked(report, bwa_bam) ==
    IF ~report.readable \/ report.mapped = <<>>
    THEN "Could not open flagstats " \o flagstat_of(bwa_bam)
    ELSE str(int(report.mapped[1]) \div 2)

\* lines 279-290: the value appended to num_reads_mapped
num_reads_mapped_of(report, bwa_bam) ==
    IF ~report.readable THEN "Could not open flagstats " \o flagstat_of(bwa_bam)
    ELSE IF report.mapped # <<>> THEN str(int(report.mapped[1]) \div 2)
    ELSE "0"

\* lines 272-290: samtools flagstat of BAM i and the mapped-read count
Flagstat ==
    /\ pc = "flagstat"
    /\ LET bwa_bam == bwa_bam_outs[i]
       IN  \E exit \in ExitCodes :
            LET call == Call(4, "flagstat", i, {bwa_bam}, {flagstat_of(bwa_bam)}, exit)
            IN  IF run_raises(exit) THEN Raise(call, "ToolFailure")
                ELSE /\ Ran(call, IF i < Len(bwa_bam_outs) THEN "flagstat" ELSE "novosort")
                     /\ qc_data' = [qc_data EXCEPT !.num_reads_mapped =
                            Append(@, num_reads_mapped_of(env.flagstat[i], bwa_bam))]
                     /\ i' = i + 1
                     /\ UNCHANGED <<read_pairs, staging_delete, bwa_bam_outs, j, rest>>

\* lines 292-306: novosort merges and sorts the BAMs of bwa_bam_outs
Novosort ==
    /\ pc = "novosort"
    /\ SoftwareRun(4, "novosort", 0, Range(bwa_bam_outs) \cup {tmp_dir},
                   {sortmerged_bam, join(logs_dir, "novosort.log")}, "index_sortmerged")

\* line 310
IndexSortmerged ==
    /\ pc = "index_sortmerged"
    /\ SoftwareRun(4, "samtools_index", 0, {sortmerged_bam}, {bai(sortmerged_bam)},
                   "steric_filter")

\* lines 311-319: pysam copies the reads of template length >= 38; opening
\* a BAM that does not exist raises
StericFilter ==
    /\ pc = "steric_filter"
    /\ LET call == Call(4, "pysam", 0, {sortmerged_bam, bai(sortmerged_bam)},
                        {steric_filter_bam}, 0)
       IN  IF sortmerged_bam \notin disk THEN Raise(call, "IOError")
           ELSE /\ Ran(call, "mark_dup")
                /\ steric_reads' = opened_for_writing(steric_reads) \o steric_filter(sortmerged_reads)
                /\ UNCHANGED <<locals, step, env, deleted, qc_file, qc_flushes, shiftvars>>
                /\ UNCHANGED sortmerged_reads

\* re.match(r'\d+', s): s starts with a digit
starts_with_digits(s) == s \in {"0.2", "0.5", "0", "10", "100", "2"}

\* variant: the loop left at the first row that matches
RECURSIVE percent_duplicate_reads_of_first(_, _)
percent_duplicate_reads_of_first(rows, before) ==
    IF rows = <<>> THEN before
    ELSE LET line == rows[1]
             record == strip(line.fields)
         IN  IF ~line.comment /\ Len(record) = 9 /\ starts_with_digits(record[8])
             THEN record[8]
             ELSE percent_duplicate_reads_of_first(Tail(rows), before)

\* lines 337-343: the loop over the rows, from the value before it
RECURSIVE percent_duplicate_reads_of(_, _)
percent_duplicate_reads_of(rows, before) ==
    IF rows = <<>> THEN before
    ELSE LET line == rows[1]
             record == strip(line.fields)
             after == IF ~line.comment /\ Len(record) = 9 /\ starts_with_digits(record[8])
                      THEN record[8] ELSE before
         IN  percent_duplicate_reads_of(Tail(rows), after)

\* lines 321-345: Picard MarkDuplicates and the duplicate rate read from
\* its metrics report, or the placeholder when the report cannot be read
MarkDup ==
    /\ pc = "mark_dup"
    /\ \E exit \in ExitCodes :
        LET call == Call(4, "picard_mark_dup", 0, {steric_filter_bam, tmp_dir},
                         {duprm_bam, markduplicates_metrics_filepath,
                          join(logs_dir, "mark_dup.log")}, exit)
        IN  IF run_raises(exit) THEN Raise(call, "ToolFailure")
            ELSE /\ Ran(call, "view_unique")
                 /\ qc_data' = [qc_data EXCEPT !.percent_duplicate_reads =
                        IF env.metrics.readable
                        THEN percent_duplicate_reads_of(env.metrics.rows, @)
                        ELSE "Could not open MarkDuplicates metrics"]
                 /\ UNCHANGED <<read_pairs, staging_delete, bwa_bam_outs, i, j, rest>>

\* lines 347-354
ViewUnique ==
    /\ pc = "view_unique"
    /\ SoftwareRun(4, "samtools_view", 0, {duprm_bam}, {unique_bam}, "view_unmappedrm")

\* lines 356-362
ViewUnmappedrm ==
    /\ pc = "view_unmappedrm"
    /\ SoftwareRun(4, "samtools_view", 0, {unique_bam}, {unmappedrm_bam}, "index_unmappedrm")

\* lines 364-367
IndexUnmappedrm ==
    /\ pc = "index_unmappedrm"
    /\ SoftwareRun(4, "samtools_index", 0, {unmappedrm_bam}, {bai(unmappedrm_bam)},
                   "view_chrmrm")

\* variant: the chrM-removed BAM kept
stage4_staged_without_chrmrm ==
    <<sortmerged_bam, bai(sortmerged_bam), steric_filter_bam, unique_bam, duprm_bam,
      unmappedrm_bam, bai(unmappedrm_bam)>>

\* lines 379-388: what stage 4 stages for deletion
stage4_staged ==
    <<sortmerged_bam, bai(sortmerged_bam), steric_filter_bam, unique_bam, duprm_bam,
      unmappedrm_bam, bai(unmappedrm_bam), chrmrm_bam>>

\* lines 369-388: chrM removed, then the stage's files staged for deletion
ViewChrmrm ==
    /\ pc = "view_chrmrm"
    /\ \E exit \in ExitCodes :
        LET call == Call(4, "samtools_view", 0, {unmappedrm_bam, bai(unmappedrm_bam)},
                         {chrmrm_bam}, exit)
        IN  IF run_raises(exit) THEN Raise(call, "ToolFailure")
            ELSE /\ Ran(call, "gate5")
                 /\ staging_delete' = extend(staging_delete, stage4_staged)
                 /\ UNCHANGED <<read_pairs, bwa_bam_outs, qc_data, i, j, rest>>

\* lines 391-408: bedtools intersect against the blacklist
Intersect ==
    /\ pc = "intersect"
    /\ SoftwareRun(5, "bedtools_intersect", 0, {chrmrm_bam, blacklist_bed}, {processed_bam},
                   "insert_metrics")

\* lines 410-415
InsertMetrics ==
    /\ pc = "insert_metrics"
    /\ SoftwareRun(5, "picard_insert_metrics", 0, {processed_bam},
                   {join(logs_dir, lib_prefix \o ".insertsize.metrics"),
                    join(logs_dir, lib_prefix \o ".insertsize.pdf")},
                   "index_processed")

\* lines 417-420
IndexProcessed ==
    /\ pc = "index_processed"
    /\ SoftwareRun(5, "samtools_index", 0, {processed_bam}, {bai(processed_bam)}, "bamtobed")

\* variant: the input of the stage staged as well
stage5_staged_with_input == <<chrmrm_bam, unshifted_bed>>

\* line 428 (line 396 is commented out): what stage 5 stages for deletion
stage5_staged == <<unshifted_bed>>

\* lines 422-428: bedtools bamtobed writes the unshifted intervals, which
\* are staged for deletion
Bamtobed ==
    /\ pc = "bamtobed"
    /\ \E exit \in ExitCodes :
        LET call == Call(5, "bedtools_bamtobed", 0, {processed_bam}, {unshifted_bed}, exit)
        IN  IF run_raises(exit) THEN Raise(call, "ToolFailure")
            ELSE /\ Ran(call, "shift_reads")
                 /\ staging_delete' = staging_delete \o stage5_staged
                 /\ input_bed' = env.bed
                 /\ UNCHANGED <<read_pairs, bwa_bam_outs, qc_data, i, j>>
                 /\ UNCHANGED <<step, env, deleted, qc_file, qc_flushes, stericvars>>
                 /\ UNCHANGED <<genome_file, genome_sizes, line_no, output_bed, log_file>>
                 /\ UNCHANGED shift_outputs

(* ---------------------------- shift_reads ------------------------------ *)
\* lines 95-102: the genome sizes are loaded, the output is opened for
\* writing (and so emptied) and the input is opened
ShiftOpen ==
    /\ pc = "shift_reads"
    /\ IF output_dir \notin disk
       THEN /\ pc' = "aborted"
            /\ error' = "IOError"
            /\ UNCHANGED <<disk, output_bed>>
       ELSE /\ pc' = "shift_line"
            /\ error' = error
            /\ disk' = disk \cup {processed_bed}
            /\ output_bed' = opened_for_writing(output_bed)
    /\ genome_sizes' = load_genome_sizes(genome_file)
    /\ line_no' = 0
    /\ UNCHANGED <<calls, locals, step, env, deleted, qc_file, qc_flushes, stericvars>>
    /\ UNCHANGED <<genome_file, input_bed, log_file, shift_outputs>>

\* lines 84-86: to_log opens the log for appending; that raises when the
\* logs directory does not exist
to_log_error(lines) == IF lines # <<>> /\ logs_dir \notin disk THEN "IOError" ELSE "none"

\* lines 103-127: the loop body for the next line of the input
ShiftLine ==
    /\ pc = "shift_line"
    /\ line_no < Len(input_bed)
    /\ LET r == shift_line(input_bed[line_no + 1], genome_sizes,
                           MINUS_STRAND_SHIFT, PLUS_STRAND_SHIFT)
           exception == IF r.error # "none" THEN r.error ELSE to_log_error(r.log)
       IN  IF exception # "none"
           THEN /\ pc' = "aborted"
                /\ error' = exception
                /\ UNCHANGED <<disk, output_bed, log_file>>
           ELSE /\ pc' = "shift_line"
                /\ error' = error
                /\ output_bed' = output_bed \o r.out
                /\ log_file' = log_file \o r.log
                /\ disk' = IF r.log # <<>> THEN disk \cup {shift_reads_log} ELSE disk
    /\ line_no' = line_no + 1
    /\ UNCHANGED <<calls, locals, step, env, deleted, qc_file, qc_flushes, stericvars>>
    /\ UNCHANGED <<genome_file, genome_sizes, input_bed, shift_outputs>>

\* lines 129-130: the input is exhausted, the output is closed, and
\* shift_reads returns to line 443
ShiftClose ==
    /\ pc = "shift_line"
    /\ line_no = Len(input_bed)
    /\ pc' = "gate6"
    /\ shift_outputs' = Append(shift_outputs, output_bed)
    /\ UNCHANGED <<disk, calls, error, locals, step, env, deleted, qc_file, qc_flushes>>
    /\ UNCHANGED <<genome_file, genome_sizes, input_bed, line_no, output_bed, log_file>>
    /\ UNCHANGED stericvars

(* ------------------------- stage 6 and the end ------------------------- *)
\* lines 450-456
Maketagdir ==
    /\ pc = "maketagdir"
    /\ SoftwareRun(6, "homer_maketagdir", 0, {processed_bed},
                   {homer_tagdir, join(logs_dir, "maketagdir.log")}, "findpeaks")

\* lines 458-469
Findpeaks ==
    /\ pc = "findpeaks"
    /\ SoftwareRun(6, "homer_findpeaks", 0, {homer_tagdir},
                   {peaks_txt, join(logs_dir, "findpeaks.log")}, "pos2bed")

\* lines 471-476
Pos2bed ==
    /\ pc = "pos2bed"
    /\ SoftwareRun(6, "homer_pos2bed", 0, {peaks_txt},
                   {unsorted_peaks, join(logs_dir, "pos2bed.log")}, "bedtools_sort")

\* lines 478-482
BedtoolsSort ==
    /\ pc = "bedtools_sort"
    /\ SoftwareRun(6, "bedtools_sort", 0, {unsorted_peaks}, {sorted_peaks}, "bedtools_merge")

\* variant: the merged peaks staged too
stage6_staged_with_merged == <<unsorted_peaks, sorted_peaks, merged_peaks>>

\* lines 491-494: what stage 6 stages for deletion
stage6_staged == <<unsorted_peaks, sorted_peaks>>

\* lines 484-494: the final peaks, then the two peak files before it staged
BedtoolsMerge ==
    /\ pc = "bedtools_merge"
    /\ \E exit \in ExitCodes :
        LET call == Call(6, "bedtools_merge", 0, {sorted_peaks}, {merged_peaks}, exit)
        IN  IF run_raises(exit) THEN Raise(call, "ToolFailure")
            ELSE /\ Ran(call, "qc_flush")
                 /\ staging_delete' = extend(staging_delete, stage6_staged)
                 /\ UNCHANGED <<read_pairs, bwa_bam_outs, qc_data, i, j, rest>>

\* lines 496-498: qc_metrics.txt is opened for writing and gets str(qc_data)
QcFlush ==
    /\ pc = "qc_flush"
    /\ IF logs_dir \notin disk
       THEN /\ pc' = "aborted"
            /\ error' = "IOError"
            /\ UNCHANGED <<disk, qc_file, qc_flushes, i>>
       ELSE /\ pc' = "cleanup"
            /\ error' = error
            /\ disk' = disk \cup {qc_metrics_txt}
            /\ qc_file' = Append(opened_for_writing(qc_file), qc_data)
            /\ qc_flushes' = qc_flushes + 1
            /\ i' = 1
    /\ UNCHANGED <<calls, read_pairs, staging_delete, bwa_bam_outs, qc_data, j>>
    /\ UNCHANGED <<step, env, deleted, shiftvars, stericvars>>

\* rm -rf of a path: the path is gone afterwards unless rm failed
rm_rf(path, exit) == IF exit = 0 THEN disk \ {path} ELSE disk

\* lines 500-502: rm -rf of entry i of staging_delete
Cleanup ==
    /\ pc = "cleanup"
    /\ LET delete_file == staging_delete[i]
           exit == exit_of("rm", delete_file)
       IN   /\ calls' = Append(calls, Call(7, "rm", i, {delete_file}, {}, exit))
            /\ disk' = rm_rf(delete_file, exit)
            /\ deleted' = Append(deleted, delete_file)
    /\ i' = i + 1
    /\ pc' = IF i < Len(staging_delete) THEN "cleanup" ELSE "done"
    /\ UNCHANGED <<error, read_pairs, staging_delete, bwa_bam_outs, qc_data, j>>
    /\ UNCHANGED <<step, env, qc_file, qc_flushes, shiftvars, stericvars>>

(* --------------------------- specifications ---------------------------- *)
Next ==
    \/ Mkdir
    \/ \E k \in 1..6 : Gate(k)
    \/ CountRaw \/ Cutadapt \/ CountTrimmed
    \/ MkdirFastqc \/ Fastqc \/ BwaAln
    \/ BwaSampe
    \/ Flagstat \/ Novosort \/ IndexSortmerged \/ StericFilter \/ MarkDup
    \/ ViewUnique \/ ViewUnmappedrm \/ IndexUnmappedrm \/ ViewChrmrm
    \/ Intersect \/ InsertMetrics \/ IndexProcessed \/ Bamtobed
    \/ ShiftOpen \/ ShiftLine \/ ShiftClose
    \/ Maketagdir \/ Findpeaks \/ Pos2bed \/ BedtoolsSort \/ BedtoolsMerge
    \/ QcFlush \/ Cleanup

\* a run of the pipeline
Spec == Init /\ [][Next]_vars

\* the lines of interval files given to shift_reads directly
BedLines ==
    {<<"chr1", "10", "20", "name", "0", "-">>,
     <<"chr1", "10", "20", "name", "0", "+">>,
     <<"chr1", "96", "99", "name", "0", "+">>,
     <<"chr1", "5", "9", "name", "0", "-">>,
     <<"chr1", "10", "20", "name", "0", ".">>,
     <<"chrUn", "10", "20", "name", "0", "+">>,
     <<"chrUn", "2", "20", "name", "0", "-">>,
     <<"chr1", "10", "20">>,
     <<"chr1", "x", "20", "name", "0", "+">>,
     <<"chr1", "20", "10", "name", "0", "+">>,
     <<"chr2", "010", "12", "name", "0", "-", "extra", "">>}

RECURSIVE SeqsUpTo(_, _)
SeqsUpTo(S, n) ==
    IF n = 0 THEN {<<>>}
    ELSE LET shorter == SeqsUpTo(S, n - 1)
         IN  shorter \cup {Append(q, x) : q \in shorter, x \in S}

BedFiles == SeqsUpTo(BedLines, MaxLines)

\* what the output file and the log can hold before shift_reads is called
StaleFiles == {<<>>, << <<"chr9", "1", "2", "old", "0", "+">> >>}

\* shift_reads called as run_pipeline calls it at lines 434-441, on any
\* input file, genome sizes file, and earlier content of output and log
InitShift ==
    /\ step = 5
    /\ read_pairs \in {r \in ReadArgs : Len(r) = 1}
    /\ disk = Inputs(read_pairs) \cup {output_dir, tmp_dir, logs_dir, unshifted_bed}
    /\ staging_delete = <<tmp_dir, unshifted_bed>>
    /\ bwa_bam_outs = <<>>
    /\ qc_data = qc_data_initial
    /\ pc = "shift_reads"
    /\ i = 1
    /\ j = 1
    /\ calls = <<>>
    /\ env = EnvUsual
    /\ deleted = <<>>
    /\ qc_file = <<>>
    /\ error = "none"
    /\ genome_file \in GenomeFiles
    /\ genome_sizes = <<>>
    /\ input_bed \in BedFiles
    /\ line_no = 0
    /\ \E stale \in StaleFiles : output_bed = stale /\ log_file = stale
    /\ shift_outputs = <<>>
    /\ sortmerged_reads = SortmergedUsual
    /\ steric_reads = <<>>
    /\ qc_flushes = 0

NextShift == ShiftOpen \/ ShiftLine \/ ShiftClose

\* one call of shift_reads
SpecShift == InitShift /\ [][NextShift]_vars

\* shift_reads is called a second time with the arguments of the first
\* call, on the files as the first call left them
ShiftAgain ==
    /\ pc = "gate6"
    /\ Len(shift_outputs) = 1
    /\ pc' = "shift_reads"
    /\ UNCHANGED <<disk, calls, error, locals, rest>>

NextShiftTwice == ShiftOpen \/ ShiftLine \/ ShiftClose \/ ShiftAgain

\* two calls of shift_reads, one after the other
SpecShiftTwice == InitShift /\ [][NextShiftTwice]_vars

Last(q) == q[Len(q)]
IsPrefix(p, q) == Len(p) <= Len(q) /\ SubSeq(q, 1, Len(p)) = p

\* the template lengths of the reads given to the steric filter directly
TemplateLengths == {10, 38, -38, 37, -50}

\* the sorted BAMs given to the steric filter
SortedBams == {AlignedReads(lengths) : lengths \in SeqsUpTo(TemplateLengths, MaxReads)}

\* what the filtered BAM can hold before the filter runs
StaleBams == {<<>>, AlignedReads(<<99>>)}

\* the steric filter of lines 311-319 run as stage 4 runs it, on any sorted
\* BAM, present or not, and any earlier content of the filtered BAM
InitSteric ==
    /\ step = 4
    /\ read_pairs \in {r \in ReadArgs : Len(r) = 1}
    /\ \E present \in BOOLEAN :
          disk = Inputs(read_pairs) \cup {output_dir, tmp_dir, logs_dir}
                 \cup (IF present THEN {sortmerged_bam, bai(sortmerged_bam)} ELSE {})
    /\ staging_delete = <<tmp_dir>>
    /\ bwa_bam_outs = <<>>
    /\ qc_data = qc_data_initial
    /\ pc = "steric_filter"
    /\ i = 1
    /\ j = 1
    /\ calls = <<>>
    /\ env = EnvUsual
    /\ deleted = <<>>
    /\ qc_file = <<>>
    /\ qc_flushes = 0
    /\ error = "none"
    /\ genome_file = << <<"chr1", "100">> >>
    /\ genome_sizes = <<>>
    /\ input_bed = <<>>
    /\ line_no = 0
    /\ output_bed = <<>>
    /\ log_file = <<>>
    /\ shift_outputs = <<>>
    /\ sortmerged_reads \in SortedBams
    /\ steric_reads \in StaleBams

NextSteric == StericFilter

\* one run of the steric filter
SpecSteric == InitSteric /\ [][NextSteric]_vars

(* ===================== properties of the steric filter ================= *)
\* the template lengths of a list of reads
Lengths(reads) == [k \in 1..Len(reads) |-> reads[k].template_length]
\* the places in the sorted BAM of the reads of length >= 38 or <= -38
LongEnough == {k \in 1..Len(sortmerged_reads) :
                  \/ sortmerged_reads[k].template_length >= 38
                  \/ sortmerged_reads[k].template_length <= -38}
\* the m-th of them
NthLongEnough(m) ==
    CHOOSE k \in LongEnough : Cardinality({x \in LongEnough : x <= k}) = m

\* C11: the filter writes exactly the reads of the sorted BAM with
\* abs(template_length) >= 38, each as it was read and in the order of the
\* sorted BAM, replacing what the filtered BAM held; reads with
\* abs(template_length) < 38 are absent; the sorted BAM is left as it was;
\* lengths [10, 38, -38, 37, -50] give [38, -38, -50].
C11_StericFilterKeepsLong ==
    [][pc = "steric_filter" /\ pc' # "aborted" =>
        /\ Len(steric_reads') = Cardinality(LongEnough)
        /\ \A m \in 1..Len(steric_reads') :
              steric_reads'[m] = sortmerged_reads[NthLongEnough(m)]
        /\ sortmerged_reads' = sortmerged_reads
        /\ Lengths(sortmerged_reads) = <<10, 38, -38, 37, -50>>
              => Lengths(steric_reads') = <<38, -38, -50>>
    ]_vars

\* the BAM of lengths [10, 38, -38, 37, -50] was filtered over stale content
C11_Witness ==
    /\ pc = "mark_dup"
    /\ Lengths(sortmerged_reads) = <<10, 38, -38, 37, -50>>
    /\ Lengths(steric_reads) = <<38, -38, -50>>
    /\ steric_reads[3].query_name = "r5"
    /\ Last(calls).tool = "pysam"

(* ======================= properties of shift_reads ===================== *)
\* the record of the line the next pass of the loop reads
NextRecord == strip(input_bed[line_no + 1])
\* a pass of the loop is about to run
AtLine == pc = "shift_line" /\ line_no < Len(input_bed)
\* the record has the six fields the code uses, with numbers as coordinates
HasFields(record) == Len(record) >= 6 /\ IsInt(record[2]) /\ IsInt(record[3])
\* the step wrote one line to the output
Wrote == Len(output_bed') = Len(output_bed) + 1 /\ SubSeq(output_bed', 1, Len(output_bed)) = output_bed
Written == output_bed'[Len(output_bed')]
\* the step appended msg and the record to the log and wrote nothing
Logged(msg, record) == log_file' = log_file \o <<msg, record>> /\ output_bed' = output_bed
\* the loop goes on with the following line
GoesOn == pc' = "shift_line" /\ line_no' = line_no + 1 /\ error' = "none"
\* position p lies on chromosome chrom of the genome size table
OnChromosome(chrom, p) ==
    chrom \in DOMAIN genome_sizes /\ 1 <= p /\ p <= genome_sizes[chrom]

\* C7: with shifts +4 and -5, a written record of strand + has coordinates
\* (start+4, end+4) and one of strand - has (start-5, end-5); a record of any
\* other strand is not written, its line (as line.strip() gives it) is
\* appended to the log after the message, and the loop goes on.
C7_StrandShift ==
    [][AtLine /\ HasFields(NextRecord) =>
        LET record == NextRecord
            start == int(record[2])
            end == int(record[3])
        IN  /\ record[6] = "+" /\ output_bed' # output_bed =>
                 Wrote /\ Written[2] = str(start + 4) /\ Written[3] = str(end + 4)
            /\ record[6] = "-" /\ output_bed' # output_bed =>
                 Wrote /\ Written[2] = str(start - 5) /\ Written[3] = str(end - 5)
            /\ record[6] \notin {"+", "-"} => Logged(MalformedMsg, record) /\ GoesOn
    ]_vars

\* a + record and a - record were written shifted and a third was logged
C7_Witness ==
    /\ pc = "gate6"
    /\ input_bed = << <<"chr1", "10", "20", "name", "0", "+">>,
                      <<"chr1", "10", "20", "name", "0", "-">>,
                      <<"chr1", "10", "20", "name", "0", ".">> >>
    /\ Len(output_bed) = 2
    /\ output_bed[1][2] = "14" /\ output_bed[2][2] = "5"
    /\ MalformedMsg \in Range(log_file)

\* C8: a record is written if and only if its strand is + or - and both
\* shifted coordinates lie in [1, chromosome_length[chrom]]; a written record
\* has 1 <= new_start and new_end <= chromosome_length[chrom]; a record of a
\* chromosome of the table that fails a bound, and any record whose shifted
\* coordinate is below 1, is logged with its line and not written.
C8_WrittenIffInBounds ==
    [][AtLine /\ HasFields(NextRecord) =>
        LET record == NextRecord
            chrom == record[1]
            shift == IF record[6] = "+" THEN 4 ELSE -5
            new_start == int(record[2]) + shift
            new_end == int(record[3]) + shift
            in_bounds == OnChromosome(chrom, new_start) /\ OnChromosome(chrom, new_end)
        IN  /\ output_bed' # output_bed <=> record[6] \in {"+", "-"} /\ in_bounds
            /\ output_bed' # output_bed =>
                 /\ Wrote
                 /\ 1 <= int(Written[2])
                 /\ int(Written[3]) <= genome_sizes[chrom]
            /\ /\ record[6] \in {"+", "-"}
               /\ ~in_bounds
               /\ chrom \in DOMAIN genome_sizes \/ new_start < 1
               => (Logged(StartMsg, record) \/ Logged(EndMsg, record)) /\ GoesOn
    ]_vars

\* with sizes {chr1: 100} the record chr1 96 99 + was dropped and logged
C8_Witness ==
    /\ pc = "shift_line"
    /\ genome_sizes = [c \in {"chr1"} |-> 100]
    /\ line_no = 1
    /\ input_bed[1] = <<"chr1", "96", "99", "name", "0", "+">>
    /\ output_bed = <<>>
    /\ Len(log_file) >= 2
    /\ log_file[Len(log_file)] = input_bed[1]

\* C9 (as claimed): no record makes shift_reads raise; every line read was
\* written or logged and the lines after it are still read.
C9_NoRecordAborts == pc # "aborted"

\* C10 (as claimed): every record in the output has
\* 0 <= start < end <= chromosome_length.
C10_Original ==
    pc \in {"shift_line", "gate6"} =>
        \A k \in 1..Len(output_bed) :
            LET line == output_bed[k]
            IN  /\ 0 <= int(line[2])
                /\ int(line[2]) < int(line[3])
                /\ int(line[3]) <= genome_sizes[line[1]]

\* C10 (amended): a written record has 1 <= start <= chromosome_length and
\* 1 <= end <= chromosome_length; a record of a chromosome of the table with
\* a shifted coordinate outside that range is not written; start < end is
\* not checked and holds of a written record exactly when it held of the
\* input record.
C10_EachCoordinateInRange ==
    [][AtLine /\ HasFields(NextRecord) =>
        LET record == NextRecord
            chrom == record[1]
            shift == IF record[6] = "+" THEN 4 ELSE -5
        IN  /\ output_bed' # output_bed =>
                 /\ Wrote
                 /\ OnChromosome(chrom, int(Written[2]))
                 /\ OnChromosome(chrom, int(Written[3]))
                 /\ int(Written[2]) < int(Written[3]) <=> int(record[2]) < int(record[3])
            /\ /\ chrom \in DOMAIN genome_sizes
               /\ ~(OnChromosome(chrom, int(record[2]) + shift)
                    /\ OnChromosome(chrom, int(record[3]) + shift))
               => output_bed' = output_bed
    ]_vars

\* a record with start > end was written, both coordinates on the chromosome
C10_Witness ==
    /\ pc = "shift_line"
    /\ line_no = 1
    /\ input_bed[1] = <<"chr1", "20", "10", "name", "0", "+">>
    /\ output_bed = << <<"chr1", "24", "14", "name", "0", "+">> >>

\* the line the next pass of the loop reads, as the list of all its fields
NextLine == input_bed[line_no + 1]

\* C14 (as claimed): the fields of a written record after chromosome, start
\* and end are the fields 4..n of the input line, unchanged and in order,
\* and records are written in the order of the input.
C14_Original ==
    [][pc = "shift_line" =>
        /\ IsPrefix(output_bed, output_bed')
        /\ AtLine /\ output_bed' # output_bed =>
              /\ Wrote
              /\ SubSeq(Written, 4, Len(Written)) = SubSeq(NextLine, 4, Len(NextLine))
    ]_vars

\* C14 (amended): the fields of a written record after chromosome, start and
\* end are the fields 4..n of the record line.strip().split('\t') gives,
\* unchanged and in order: empty fields at the end of the input line are not
\* written; the chromosome is written as read; records are written in the
\* order of the input, each at the end of the output.
C14_PassthroughOfStrippedLine ==
    [][pc = "shift_line" =>
        /\ IsPrefix(output_bed, output_bed')
        /\ AtLine /\ output_bed' # output_bed =>
              /\ Wrote
              /\ Len(Written) = Len(NextRecord)
              /\ Written[1] = NextRecord[1]
              /\ \A k \in 4..Len(NextRecord) : Written[k] = NextRecord[k]
              /\ Len(NextRecord) <= Len(NextLine)
              /\ \A k \in 1..Len(NextLine) :
                    k <= Len(NextRecord) => NextRecord[k] = NextLine[k]
              /\ \A k \in (Len(NextRecord) + 1)..Len(NextLine) : NextLine[k] = ""
    ]_vars

\* a line of eight fields, the last one empty, was written after another
\* line, with seven fields
C14_Witness ==
    /\ pc = "shift_line"
    /\ line_no = 2
    /\ input_bed[2] = <<"chr2", "010", "12", "name", "0", "-", "extra", "">>
    /\ Len(output_bed) = 2
    /\ output_bed[2] = <<"chr2", "5", "7", "name", "0", "-", "extra">>

\* C15 (as claimed): with sizes {chr1: 100}, the record
\* (chr1, 10, 20, name, 0, '-') shifted by -5 is written as
\* (chr1, 5, 15, name, 0).
C15_Original ==
    [][/\ AtLine
       /\ genome_sizes = [c \in {"chr1"} |-> 100]
       /\ NextLine = <<"chr1", "10", "20", "name", "0", "-">>
       => Wrote /\ Written = <<"chr1", "5", "15", "name", "0">>
    ]_vars

\* C15 (amended): that record is written as (chr1, 5, 15, name, 0, '-'): the
\* strand field is written after the score, as every field after the end is.
C15_ExampleKeepsStrand ==
    [][/\ AtLine
       /\ genome_sizes = [c \in {"chr1"} |-> 100]
       /\ NextLine = <<"chr1", "10", "20", "name", "0", "-">>
       => /\ Wrote
          /\ Written = <<"chr1", "5", "15", "name", "0", "-">>
          /\ log_file' = log_file
          /\ GoesOn
    ]_vars

\* the example was the only line of the input and shift_reads returned
C15_Witness ==
    /\ pc = "gate6"
    /\ genome_sizes = [c \in {"chr1"} |-> 100]
    /\ input_bed = << <<"chr1", "10", "20", "name", "0", "-">> >>
    /\ output_bed = << <<"chr1", "5", "15", "name", "0", "-">> >>

\* C16: when shift_reads has run twice on the same input file, genome size
\* table and shifts, the output file after the second run is the one the
\* first run left: the output is replaced, not appended to, and holds
\* nothing of what it held before the first run, whatever the log held; the
\* log is only appended to.
C16_SecondRunSameOutput ==
    /\ [](Len(shift_outputs) = 2 =>
            /\ shift_outputs[2] = shift_outputs[1]
            /\ output_bed = shift_outputs[1])
    /\ [](\A n \in 1..Len(shift_outputs) : \A k \in 1..Len(shift_outputs[n]) :
            shift_outputs[n][k][1] # "chr9")
    /\ [][IsPrefix(log_file, log_file')]_vars

\* the second run returned: it wrote a record again, over an output and a
\* log that were not empty before the first run, and logged a line again
C16_Witness ==
    /\ pc = "gate6"
    /\ Len(shift_outputs) = 2
    /\ Len(shift_outputs[1]) = 1
    /\ Len(input_bed) = 2
    /\ Len(log_file) = 5
    /\ log_file[1][1] = "chr9"

(* ====================== properties of run_pipeline ===================== *)
\* the flush or the cleanup is reached: every gated stage is behind
StagesOver == pc \in {"qc_flush", "cleanup", "done"}
\* the stages that have started a program
StagesCalled == {calls[n].stage : n \in 1..Len(calls)} \cap 1..6

\* C1: the stages entered are exactly those from step to 6, in ascending
\* order, and within a stage the pairs are handled in list order.  calls
\* only grows at its end, so comparing its last entry with every earlier
\* one in every state compares every two entries.
C1_StagesAscending ==
    /\ \A n \in 1..Len(calls) :
        /\ calls[n].stage \in 1..6 => step <= calls[n].stage
        /\ calls[n].stage <= Last(calls).stage
        /\ calls[n].stage = Last(calls).stage /\ calls[n].pair > 0 /\ Last(calls).pair > 0
             => calls[n].pair <= Last(calls).pair
    /\ StagesOver => StagesCalled = {k \in 1..6 : step <= k}

\* a run from step 3 with two pairs came to its end
C1_Witness ==
    /\ pc = "done"
    /\ step = 3
    /\ Len(read_pairs) = 2
    /\ \E n \in 1..Len(calls) : calls[n].stage = 3 /\ calls[n].pair = 2
    /\ StagesCalled = 3..6

\* the files stages 1..step-1 of a run from step 1 wrote are all on disk
PriorOutputsIntact ==
    UNION {stage_outputs(k, Len(read_pairs)) : k \in 1..(step - 1)} \subseteq disk

\* C2 (as claimed): in a run resumed at step 2..6 on the intact outputs of
\* stages 1..step-1, every path a program of stages step..6 is given to read
\* exists.
C2_ResumedInputsExist ==
    step \in 2..6 /\ ~StagesOver /\ PriorOutputsIntact =>
        \A n \in 1..Len(calls) : calls[n].stage \in 1..6 => calls[n].missing = {}

\* the paths stages 1-4 produce
Stage14Paths ==
    UNION {stage_outputs(k, MaxPairs) : k \in 1..4}
    \cup {sai(read) : read \in UNION {Range(RawPair(n)) : n \in 1..MaxPairs}}

\* C3: a run with step=5 starts no program of stages 1-4, writes
\* <lib>.processed.bed, and neither writes nor deletes a path of stages 1-4,
\* the cleanup included.
C3_Step5LeavesEarlierOutputs ==
    /\ [](step = 5 =>
            /\ \A n \in 1..Len(calls) :
                 calls[n].stage \notin 1..4 /\ calls[n].writes \cap Stage14Paths = {}
            /\ Range(deleted) \cap Stage14Paths = {}
            /\ pc = "done" => processed_bed \in disk)
    /\ [][step = 5 => disk' \cap Stage14Paths = disk \cap Stage14Paths]_vars

\* a run with step=5 ended with the chrM-removed BAM it was given and the
\* shifted intervals on disk
C3_Witness ==
    /\ pc = "done"
    /\ step = 5
    /\ chrmrm_bam \in disk
    /\ processed_bed \in disk
    /\ Len(deleted) = Len(staging_delete)

\* stage 4 ran to its last program in this run
Stage4Ran ==
    \E n \in 1..Len(calls) :
        calls[n].stage = 4 /\ calls[n].writes = {chrmrm_bam} /\ calls[n].exit = 0
\* no rm of the cleanup failed
RmAllWorked == \A n \in 1..Len(calls) : calls[n].tool = "rm" => calls[n].exit = 0

\* C4 (as claimed): stage 4 stages the five intermediate BAMs and not the
\* chrM-removed BAM, which exists after the cleanup.
C4_Original ==
    Stage4Ran =>
        /\ {sortmerged_bam, steric_filter_bam, unique_bam, duprm_bam, unmappedrm_bam}
             \subseteq Range(staging_delete)
        /\ chrmrm_bam \notin Range(staging_delete)
        /\ pc = "done" => chrmrm_bam \in disk

\* C4 (amended): stage 4 stages the five intermediate BAMs, the two BAM
\* indexes and the chrM-removed BAM too; that BAM exists when stage 5 of the
\* same run reads it, and is gone after the cleanup of a completed run
\* unless an rm failed.
C4_ChrmrmStagedToo ==
    Stage4Ran =>
        /\ {sortmerged_bam, bai(sortmerged_bam), steric_filter_bam, unique_bam, duprm_bam,
            unmappedrm_bam, bai(unmappedrm_bam), chrmrm_bam} \subseteq Range(staging_delete)
        /\ \A n \in 1..Len(calls) :
             calls[n].tool = "bedtools_intersect" => chrmrm_bam \notin calls[n].missing
        /\ pc = "done" /\ RmAllWorked => chrmrm_bam \notin disk

\* a completed run with stage 4: stage 5 read the BAM, the cleanup removed it
C4_Witness ==
    /\ pc = "done"
    /\ Stage4Ran
    /\ \E n \in 1..Len(calls) : calls[n].tool = "bedtools_intersect"
    /\ chrmrm_bam \notin disk
    /\ processed_bed \in disk

\* C5: the staging-delete list only grows at its end; nothing is deleted
\* and no deletion is attempted before the cleanup, which starts after the
\* QC flush; the cleanup passes the entries to rm one by one in list order,
\* each once, whether or not the path exists or an earlier rm failed.
C5_StagedListConsumedOnce ==
    /\ [][IsPrefix(staging_delete, staging_delete')]_vars
    /\ [][pc # "cleanup" => deleted' = deleted /\ disk \subseteq disk']_vars
    /\ [][pc # "cleanup" /\ pc' = "cleanup" => pc = "qc_flush"]_vars
    /\ [](/\ pc \notin {"cleanup", "done"} => deleted = <<>>
          /\ pc = "cleanup" => deleted = SubSeq(staging_delete, 1, i - 1)
          /\ pc = "done" => deleted = staging_delete)

\* a cleanup ran to its end over an entry that did not exist and more
C5_Witness ==
    /\ pc = "done"
    /\ Len(staging_delete) >= 3
    /\ deleted = staging_delete
    /\ \E n \in 1..Len(calls) :
         calls[n].tool = "rm" /\ calls[n].missing # {} /\ calls[n].pair < Len(staging_delete)

IgnoredTools == {"zcat", "mkdir", "rm"}

\* C6 (as claimed): a program of a stage that exits non-zero is the last
\* one the run starts, and the run is aborted.
C6_Original ==
    \A n \in 1..Len(calls) :
        calls[n].stage \in 1..6 /\ calls[n].exit # 0 => n = Len(calls) /\ pc = "aborted"

\* C6 (amended): a failure Software.run raises is not caught: it is the last
\* program the run starts, and the run reaches neither the QC flush nor the
\* cleanup; a run_pipeline aborted by a tool failure was aborted by such a
\* program.  (zcat, mkdir and rm are started with subprocess directly and
\* their exit status is not read.)
C6_SoftwareFailureAborts ==
    /\ \A n \in 1..Len(calls) :
         calls[n].tool \notin IgnoredTools /\ run_raises(calls[n].exit) =>
            /\ n = Len(calls)
            /\ pc = "aborted"
            /\ qc_flushes = 0
            /\ deleted = <<>>
    /\ pc = "aborted" /\ error = "ToolFailure" =>
         Last(calls).tool \notin IgnoredTools /\ Last(calls).exit # 0

\* zcat failed in stage 1 and the run went on until a program of stage 4
\* failed
C6_Witness ==
    /\ pc = "aborted"
    /\ error = "ToolFailure"
    /\ Last(calls).stage = 4
    /\ \E n \in 1..Len(calls) : calls[n].tool = "zcat" /\ calls[n].exit # 0

\* the statements of stage 4 after the flagstat loop, and all that follow
AfterFlagstat ==
    {"novosort", "index_sortmerged", "steric_filter", "mark_dup", "view_unique",
     "view_unmappedrm", "index_unmappedrm", "view_chrmrm", "gate5", "intersect",
     "insert_metrics", "index_processed", "bamtobed", "shift_reads", "shift_line",
     "gate6", "maketagdir", "findpeaks", "pos2bed", "bedtools_sort", "bedtools_merge",
     "qc_flush", "cleanup", "done"}

\* C12: for each BAM the flagstat loop of stage 4 visits, once flagstat has
\* run, exactly one value is appended to num_reads_mapped, in the order of
\* the BAMs: half the matched count when the report has the count line
\* (count 8 gives '4'), '0' when it has none, and the placeholder naming the
\* report when the report cannot be read; in every case no error is raised
\* and the loop goes on with the next BAM or with novosort.
C12_OneMappedValuePerBam ==
    /\ [][pc = "flagstat" /\ pc' # "aborted" =>
            LET report == env.flagstat[i]
                bwa_bam == bwa_bam_outs[i]
                value == Last(qc_data'.num_reads_mapped)
            IN  /\ Len(qc_data'.num_reads_mapped) = Len(qc_data.num_reads_mapped) + 1
                /\ IsPrefix(qc_data.num_reads_mapped, qc_data'.num_reads_mapped)
                /\ report.readable /\ report.mapped = <<"8">> => value = "4"
                /\ report.readable /\ report.mapped = <<>> => value = "0"
                /\ ~report.readable => value = "Could not open flagstats " \o bwa_bam \o ".flagstat"
                /\ error' = "none"
                /\ i' = i + 1
                /\ pc' = IF i < Len(bwa_bam_outs) THEN "flagstat" ELSE "novosort"
       ]_vars
    /\ [](pc = "flagstat" => Len(qc_data.num_reads_mapped) = i - 1)
    /\ [](pc \in AfterFlagstat => Len(qc_data.num_reads_mapped) = Len(bwa_bam_outs))

\* a run with two pairs, where the first report could not be read and the
\* second had the count line, came to its end
C12_Witness ==
    /\ pc = "done"
    /\ Len(bwa_bam_outs) = 2
    /\ qc_data.num_reads_mapped = <<"Could not open flagstats /out/lib.0.bam.flagstat", "4">>
    /\ qc_file = <<qc_data>>

\* MarkDuplicates has run in this run and the QC block after it is done
MarkDupRan == \E n \in 1..Len(calls) : calls[n].tool = "picard_mark_dup" /\ calls[n].exit = 0
\* the rows of the metrics report that are no comment, have 9 tab-separated
\* fields and a field 7 that starts with a digit
NumericRows ==
    {k \in 1..Len(env.metrics.rows) :
        /\ ~env.metrics.rows[k].comment
        /\ Len(env.metrics.rows[k].fields) = 9
        /\ env.metrics.rows[k].fields[8] \in {"0.2", "0.5"}}
FirstNumericRow == CHOOSE k \in NumericRows : \A x \in NumericRows : k <= x
LastNumericRow == CHOOSE k \in NumericRows : \A x \in NumericRows : x <= k

\* C13 (as claimed): after stage 4, percent_duplicate_reads is field 7 of
\* the first non-comment row with 9 fields and a numeric field 7, whatever
\* rows follow it.
C13_Original ==
    MarkDupRan /\ env.metrics.readable /\ NumericRows # {} =>
        qc_data.percent_duplicate_reads = env.metrics.rows[FirstNumericRow].fields[8]

\* C13 (amended): after stage 4, percent_duplicate_reads is field 7 of the
\* last such row of the report; it keeps its initial '0' when the report can
\* be read and has no such row, and is the placeholder when the report
\* cannot be read.
C13_LastNumericRowWins ==
    MarkDupRan =>
        qc_data.percent_duplicate_reads =
            IF ~env.metrics.readable THEN "Could not open MarkDuplicates metrics"
            ELSE IF NumericRows = {} THEN "0"
            ELSE env.metrics.rows[LastNumericRow].fields[8]

\* the report had the rows of two libraries (0.2, then 0.5) and the run
\* went on after the QC block
C13_Witness ==
    /\ pc = "view_unique"
    /\ Cardinality(NumericRows) = 2
    /\ env.metrics.rows[FirstNumericRow].fields[8] = "0.2"
    /\ qc_data.percent_duplicate_reads = "0.5"

\* C17: logs/qc_metrics.txt is written only by the flush, which comes after
\* every stage from step to 6 has run its programs and before the first
\* rm of the cleanup; a run that reaches the cleanup or its end has written
\* the file exactly once, and the file then holds the QC record of this run
\* alone, whatever it held before; after the flush only rm is started.
C17_QcWrittenOnceBeforeCleanup ==
    /\ [][qc_flushes' # qc_flushes \/ qc_file' # qc_file =>
            /\ pc = "qc_flush"
            /\ pc' = "cleanup"
            /\ qc_flushes' = qc_flushes + 1
            /\ qc_file' = <<qc_data>>
            /\ StagesCalled = {k \in 1..6 : step <= k}
            /\ deleted = <<>>
            /\ \A n \in 1..Len(calls) : calls[n].tool # "rm"
       ]_vars
    /\ [](pc \in {"cleanup", "done"} =>
            qc_flushes = 1 /\ qc_file = <<qc_data>> /\ qc_metrics_txt \in disk)
    /\ [](pc \notin {"cleanup", "done"} => qc_flushes = 0 /\ deleted = <<>>)
    /\ [][qc_flushes = 1 /\ calls' # calls => Last(calls').tool = "rm"]_vars

\* a run resumed at step 5 on what earlier runs left (their QC file too)
\* came to its end after its cleanup
C17_Witness ==
    /\ pc = "done"
    /\ step = 5
    /\ flagstat_of(bwa_bam_output(0)) \in disk
    /\ qc_flushes = 1
    /\ qc_file = <<qc_data_initial>>
    /\ Len(deleted) = 4

\* the BAMs stage 3 writes for the pairs of the run
PairBams == {bwa_bam_output(p - 1) : p \in 1..Len(read_pairs)}

\* C18 (as claimed): whenever stage 4 is entered, novosort is given exactly
\* the BAMs <lib>.<i>.bam of all read pairs of the run, after the flagstat
\* loop has visited each of them once.
C18_NovosortGetsEveryPair ==
    \A n \in 1..Len(calls) :
        calls[n].tool = "novosort" =>
            /\ calls[n].reads \ {tmp_dir} = PairBams
            /\ \A bam \in PairBams :
                 Cardinality({m \in 1..n : calls[m].tool = "flagstat" /\ calls[m].reads = {bam}}) = 1

\* the paths stage k stages for deletion, for any pair and read
StagedBy(k) ==
    CASE k = 1 -> {trimmed_read1_filename(p - 1) : p \in 1..MaxPairs}
                  \cup {trimmed_read2_filename(p - 1) : p \in 1..MaxPairs}
      [] k = 2 -> {read \o ".sai" : read \in
                      UNION {Range(RawPair(p)) : p \in 1..MaxPairs}
                      \cup {trimmed_read1_filename(p - 1) : p \in 1..MaxPairs}
                      \cup {trimmed_read2_filename(p - 1) : p \in 1..MaxPairs}}
      [] k = 4 -> {sortmerged_bam, sortmerged_bam \o ".bai", steric_filter_bam, unique_bam,
                   duprm_bam, unmappedrm_bam, unmappedrm_bam \o ".bai", chrmrm_bam}
      [] k = 5 -> {unshifted_bed}
      [] k = 6 -> {unsorted_peaks, sorted_peaks}
      [] OTHER -> {}

\* C19: an entry of the staging-delete list is the tmp directory, its first
\* entry for every starting step, or a path staged by a stage k with
\* step <= k that has run in this run; no path staged by a skipped stage is
\* in the list, passed to rm or removed from the disk; a run with every stage
\* skipped has tmp as its only entry; a completed run has passed tmp to
\* rm -rf, and tmp is gone unless that rm failed.
C19_StagedOnlyByEnteredStages ==
    /\ [](\A n \in 1..Len(staging_delete) :
            \/ n = 1 /\ staging_delete[n] = tmp_dir
            \/ \E k \in 1..6 : /\ staging_delete[n] \in StagedBy(k)
                                /\ step <= k
                                /\ k \in StagesCalled)
    /\ [](pc # "mkdir" => staging_delete # <<>> /\ staging_delete[1] = tmp_dir)
    /\ [](\A k \in 1..6 : step > k =>
            /\ Range(staging_delete) \cap StagedBy(k) = {}
            /\ Range(deleted) \cap StagedBy(k) = {})
    /\ [][\A k \in 1..6 : step > k => disk' \cap StagedBy(k) = disk \cap StagedBy(k)]_vars
    /\ [](StagesOver /\ step > 6 => staging_delete = <<tmp_dir>>)
    /\ [](pc = "done" =>
            /\ deleted[1] = tmp_dir
            /\ calls[Len(calls) - Len(deleted) + 1].exit = 0 => tmp_dir \notin disk)

\* a run resumed at step 5 ended: tmp and the files staged by stages 5 and 6
\* are gone, the intermediate BAMs of stage 4 are still there
C19_Witness ==
    /\ pc = "done"
    /\ step = 5
    /\ deleted = <<tmp_dir, unshifted_bed, unsorted_peaks, sorted_peaks>>
    /\ tmp_dir \notin disk
    /\ unshifted_bed \notin disk
    /\ {sortmerged_bam, steric_filter_bam, chrmrm_bam} \subseteq disk

\* what a run is for: the processed BAM, the shifted intervals, the merged
\* peaks, the tag directory and the QC file
Deliverables == {processed_bam, processed_bed, merged_peaks, homer_tagdir, qc_metrics_txt}
\* program tool has run to its end in this run
HasRun(tool) == \E n \in 1..Len(calls) : calls[n].tool = tool /\ calls[n].exit = 0

\* C20: no deliverable is ever in the staging-delete list or passed to rm;
\* <lib>.unshifted.bed is in the list exactly when bamtobed of stage 5 has
\* run, and the unsorted and sorted peak files exactly when the merge of
\* stage 6 has run; a deliverable on disk stays on disk; a run from step <= 5
\* that completes leaves every deliverable on disk, one from step 6 the
\* merged peaks, the tag directory and the QC file.
C20_DeliverablesNeverStaged ==
    /\ [](/\ Range(staging_delete) \cap Deliverables = {}
          /\ Range(deleted) \cap Deliverables = {}
          /\ unshifted_bed \in Range(staging_delete) <=> HasRun("bedtools_bamtobed")
          /\ unsorted_peaks \in Range(staging_delete) <=> HasRun("bedtools_merge")
          /\ sorted_peaks \in Range(staging_delete) <=> HasRun("bedtools_merge")
          /\ StagesOver => (HasRun("bedtools_bamtobed") <=> step <= 5)
          /\ StagesOver => (HasRun("bedtools_merge") <=> step <= 6))
    /\ [][disk \cap Deliverables \subseteq disk']_vars
    /\ [](pc = "done" =>
            /\ step <= 5 => Deliverables \subseteq disk
            /\ step <= 6 => {merged_peaks, homer_tagdir, qc_metrics_txt} \subseteq disk
            /\ qc_metrics_txt \in disk)

\* a run from step 1 ended: every deliverable is there, the three staged
\* interval files are gone
C20_Witness ==
    /\ pc = "done"
    /\ step = 1
    /\ Deliverables \subseteq disk
    /\ {unshifted_bed, unsorted_peaks, sorted_peaks} \cap disk = {}
    /\ {unshifted_bed, unsorted_peaks, sorted_peaks} \subseteq Range(deleted)

\* the statements of stage 1 and of stage 4 that write a metric
Stage1Counts == {"count_raw", "count_trimmed"}
Stage4Metrics == {"flagstat", "mark_dup"}

\* C21: the QC record of a run starts from the defaults, whatever an earlier
\* run recorded; the read counts change only in stage 1 and only grow,
\* num_reads_mapped and percent_duplicate_reads change only in stage 4, the
\* other metrics never; so a run with step > 1 flushes empty read counts,
\* one with step > 4 also an empty num_reads_mapped and the '0' of
\* percent_duplicate_reads, every run the '-1' of num_peaks_called and of
\* num_reads_mapped_after_filtering; the flushed file holds this record alone.
C21_QcRebuiltFromDefaults ==
    /\ [](pc \in {"mkdir", "gate1"} =>
            /\ qc_data.total_raw_reads_counts = <<>>
            /\ qc_data.trimmed_reads_counts = <<>>
            /\ qc_data.num_reads_mapped = <<>>
            /\ qc_data.percent_duplicate_reads = "0")
    /\ [](/\ step > 1 => qc_data.total_raw_reads_counts = <<>> /\ qc_data.trimmed_reads_counts = <<>>
          /\ step > 4 => qc_data.num_reads_mapped = <<>> /\ qc_data.percent_duplicate_reads = "0"
          /\ qc_data.num_unique_reads_mapped = <<>>
          /\ qc_data.num_mtDNA_reads_mapped = <<>>
          /\ qc_data.num_reads_mapped_after_filtering = "-1"
          /\ qc_data.num_peaks_called = "-1")
    /\ [][/\ qc_data'.total_raw_reads_counts # qc_data.total_raw_reads_counts
              => pc = "count_raw" /\ step <= 1
                 /\ IsPrefix(qc_data.total_raw_reads_counts, qc_data'.total_raw_reads_counts)
          /\ qc_data'.trimmed_reads_counts # qc_data.trimmed_reads_counts
              => pc = "count_trimmed" /\ step <= 1
                 /\ IsPrefix(qc_data.trimmed_reads_counts, qc_data'.trimmed_reads_counts)
          /\ qc_data'.num_reads_mapped # qc_data.num_reads_mapped
              => pc = "flagstat" /\ step <= 4
          /\ qc_data'.percent_duplicate_reads # qc_data.percent_duplicate_reads
              => pc = "mark_dup" /\ step <= 4
          /\ qc_data' # qc_data => pc \in Stage1Counts \cup Stage4Metrics
       ]_vars
    /\ [](pc \in {"cleanup", "done"} => qc_file = <<qc_data>>)

\* a run resumed at step 2 on what earlier runs left ended: the flushed
\* record has no read counts, and the metrics of stage 4 of this run
C21_Witness ==
    /\ pc = "done"
    /\ step = 2
    /\ trimmed_read1_filename(0) \in disk
    /\ Len(qc_file) = 1
    /\ qc_file[1].total_raw_reads_counts = <<>>
    /\ qc_file[1].trimmed_reads_counts = <<>>
    /\ qc_file[1].num_reads_mapped = <<"4">>
    /\ qc_file[1].percent_duplicate_reads = "0.2"

====
